---- MODULE Spec2Model ----
(***************************************************************************)
(* Model of lab6.py: a file-backed ORM.  FileManager reads and writes a    *)
(* line-oriented text dialect, Field descriptors type-check assignments,   *)
(* QuerySet.run_query filters the decoded records and Model.save does a    *)
(* whole-file read-modify-write.                                           *)
(*                                                                         *)
(* Text is a sequence of one-character strings.  A Python value is a       *)
(* tagged record (None, an int or a str); a Python dict is a sequence of   *)
(* <<key, value>> pairs with distinct keys, in insertion order.            *)
(***************************************************************************)
EXTENDS Integers, Sequences, FiniteSets, TLC

\* ------------------------------------------------------------------ text

NL == "\n"
\* The character U+00B2 (superscript two): str.isdigit() accepts it, int() does not.
Sup2 == "sup2"
\* A byte that is not valid UTF-8: open(..., encoding='utf-8') cannot decode it.
BadByte == "xFF"

Whitespace == {" ", NL}
DigitChars == <<"0", "1", "2", "3", "4", "5", "6", "7", "8", "9">>
AsciiDigits == {DigitChars[i] : i \in 1..10}

DigitVal(c) == (CHOOSE i \in 1..10 : DigitChars[i] = c) - 1

Contains(s, c) == \E i \in 1..Len(s) : s[i] = c

IndexOf(s, c) == CHOOSE i \in 1..Len(s) : s[i] = c /\ \A j \in 1..(i - 1) : s[j] # c

StartsWith(s, p) == Len(s) >= Len(p) /\ SubSeq(s, 1, Len(p)) = p

Drop(s, n) == SubSeq(s, n + 1, Len(s))

RECURSIVE LStrip(_)
LStrip(s) == IF s # <<>> /\ Head(s) \in Whitespace THEN LStrip(Tail(s)) ELSE s

RECURSIVE RStrip(_)
RStrip(s) ==
    IF s # <<>> /\ s[Len(s)] \in Whitespace THEN RStrip(SubSeq(s, 1, Len(s) - 1)) ELSE s

Strip(s) == RStrip(LStrip(s))

\* s.split(":", 1) for an s that contains ":".
SplitColon(s) == <<SubSeq(s, 1, IndexOf(s, ":") - 1), Drop(s, IndexOf(s, ":"))>>

\* f.readlines(), each line without its terminator (every use strips the line or
\* looks for ":" in it, so the terminator never matters).
RECURSIVE ReadLines(_)
ReadLines(text) ==
    IF text = <<>> THEN <<>>
    ELSE IF Contains(text, NL)
         THEN <<SubSeq(text, 1, IndexOf(text, NL) - 1)>> \o ReadLines(Drop(text, IndexOf(text, NL)))
         ELSE <<text>>

IsDigit(s) == s # <<>> /\ \A i \in 1..Len(s) : s[i] \in AsciiDigits \cup {Sup2}

RECURSIVE ParseInt(_)
ParseInt(s) == IF s = <<>> THEN 0 ELSE 10 * ParseInt(SubSeq(s, 1, Len(s) - 1)) + DigitVal(s[Len(s)])

RECURSIVE NatToStr(_)
NatToStr(n) == IF n < 10 THEN <<DigitChars[n + 1]>> ELSE NatToStr(n \div 10) \o <<DigitChars[(n % 10) + 1]>>

IntToStr(n) == IF n < 0 THEN <<"-">> \o NatToStr(0 - n) ELSE NatToStr(n)

\* ---------------------------------------------------------------- values

None == [t |-> "none", n |-> 0, s |-> <<>>]
PyInt(n) == [t |-> "int", n |-> n, s |-> <<>>]
PyStr(s) == [t |-> "str", n |-> 0, s |-> s]

\* str(v), as the f-strings of write format a value.
Format(v) == IF v.t = "int" THEN IntToStr(v.n) ELSE IF v.t = "str" THEN v.s ELSE <<"N", "o", "n", "e">>

\* ----------------------------------------------------------------- dicts

Has(d, k) == \E i \in 1..Len(d) : d[i][1] = k
Get(d, k) == IF Has(d, k) THEN d[CHOOSE i \in 1..Len(d) : d[i][1] = k][2] ELSE None
Put(d, k, v) ==
    IF Has(d, k) THEN [i \in 1..Len(d) |-> IF d[i][1] = k THEN <<k, v>> ELSE d[i]]
    ELSE Append(d, <<k, v>>)

\* --------------------------------------------------------------- the codec

\* int(value) raises ValueError on a string isdigit() accepts and int() rejects.
ParseFails(value) == IsDigit(Strip(value)) /\ Contains(Strip(value), Sup2)

_parse_value(value) ==
    IF IsDigit(Strip(value)) THEN PyInt(ParseInt(Strip(value))) ELSE PyStr(Strip(value))

Marker == <<"-", " ">>

\* The list branch of read (lines 115-134): the loop over the lines, from line i on,
\* with the records appended so far and the record being filled.
RECURSIVE ParseRecords(_, _, _, _)
ParseRecords(lines, i, data, current_obj) ==
    IF i > Len(lines)
    THEN IF current_obj # <<>> THEN Append(data, current_obj) ELSE data
    ELSE LET line == Strip(lines[i])
             key_part == Drop(line, 2)
         IN  IF line = <<>> THEN ParseRecords(lines, i + 1, data, current_obj)
             ELSE IF StartsWith(line, Marker)
             THEN ParseRecords(lines, i + 1,
                      IF current_obj # <<>> THEN Append(data, current_obj) ELSE data,
                      IF Contains(key_part, ":")
                      THEN <<<<Strip(SplitColon(key_part)[1]), _parse_value(SplitColon(key_part)[2])>>>>
                      ELSE <<>>)
             ELSE IF Contains(line, ":")
             THEN ParseRecords(lines, i + 1, data,
                      Put(current_obj, Strip(SplitColon(line)[1]), _parse_value(SplitColon(line)[2])))
             ELSE ParseRecords(lines, i + 1, data, current_obj)

\* Some value the list branch parses makes int() raise.
RecordsFail(lines) ==
    \E i \in 1..Len(lines) :
        LET line == Strip(lines[i])
        IN  IF StartsWith(line, Marker)
            THEN Contains(Drop(line, 2), ":") /\ ParseFails(SplitColon(Drop(line, 2))[2])
            ELSE Contains(line, ":") /\ ParseFails(SplitColon(line)[2])

\* The wrapped branch (lines 108-112): the items under "data:".
RECURSIVE ParseItems(_, _)
ParseItems(lines, i) ==
    IF i > Len(lines) THEN <<>>
    ELSE IF StartsWith(Strip(lines[i]), Marker)
         THEN <<Drop(Strip(lines[i]), 2)>> \o ParseItems(lines, i + 1)
         ELSE ParseItems(lines, i + 1)

\* The flat branch (lines 136-141).
RECURSIVE ParseConfig(_, _, _)
ParseConfig(lines, i, config) ==
    IF i > Len(lines) THEN config
    ELSE IF Contains(lines[i], ":")
         THEN ParseConfig(lines, i + 1,
                  Put(config, Strip(SplitColon(lines[i])[1]), _parse_value(SplitColon(lines[i])[2])))
         ELSE ParseConfig(lines, i + 1, config)

ConfigFails(lines) ==
    \E i \in 1..Len(lines) : Contains(lines[i], ":") /\ ParseFails(SplitColon(lines[i])[2])

Result(shape, recs, items, config) == [shape |-> shape, recs |-> recs, items |-> items, config |-> config]
Raised == Result("FileCorrupted", <<>>, <<>>, <<>>)

DataKey == <<"d", "a", "t", "a", ":">>

\* FileManager.read without its decorator: the decoded shape of the file, or Raised
\* when opening, decoding or parsing raises (every Exception becomes FileCorrupted).
ReadBody(readable, text) ==
    LET lines == ReadLines(text)
        first_line == Strip(lines[1])
    IN  IF ~readable \/ Contains(text, BadByte) THEN Raised
        ELSE IF lines = <<>> THEN Result("dict", <<>>, <<>>, <<>>)
        ELSE IF StartsWith(first_line, DataKey)
        THEN Result("wrapped", <<>>, ParseItems(lines, 2), <<>>)
        ELSE IF StartsWith(first_line, Marker)
        THEN IF RecordsFail(lines) THEN Raised
             ELSE Result("list", ParseRecords(lines, 1, <<>>, <<>>), <<>>, <<>>)
        ELSE IF ConfigFails(lines) THEN Raised
             ELSE Result("dict", <<>>, <<>>, ParseConfig(lines, 1, <<>>))

\* A decorator that logs the exception and returns an empty mapping in its place.
loggedSwallowed(r) == IF r.shape = "FileCorrupted" THEN Result("dict", <<>>, <<>>, <<>>) ELSE r

\* The decorator: it logs the exception and raises it again, and passes a normal
\* return through.
logged(r) == r

read(readable, text) == logged(ReadBody(readable, text))

\* One record as write's list branch prints it (lines 165-170).
RECURSIVE WriteFields(_, _)
WriteFields(record, i) ==
    IF i > Len(record) THEN <<>>
    ELSE (IF i = 1 THEN Marker ELSE <<" ", " ">>) \o record[i][1] \o <<":", " ">>
             \o Format(record[i][2]) \o <<NL>> \o WriteFields(record, i + 1)

\* The text write leaves in the file for a list of records (the file is opened
\* with 'w', so the old contents are gone).  save only ever passes a list; the dict
\* branch (lines 155-162) and a failing open (lines 171-172) are not modelled.
RECURSIVE write(_)
write(data) == IF data = <<>> THEN <<>> ELSE WriteFields(Head(data), 1) \o write(Tail(data))

\* ---------------------------------------------------------------- fields

IdName == <<"i", "d">>
UsernameName == <<"u", "s", "e", "r", "n", "a", "m", "e">>
AgeName == <<"a", "g", "e">>

\* User.fields, in declaration order: name and type_name of each descriptor.
fields ==
    << [name |-> IdName, type_name |-> "INTEGER"],
       [name |-> UsernameName, type_name |-> "TEXT"],
       [name |-> AgeName, type_name |-> "INTEGER"] >>

FieldNames == {fields[i].name : i \in 1..Len(fields)}
FieldOf(name) == fields[CHOOSE i \in 1..Len(fields) : fields[i].name = name]

\* An instance is its __dict__ over the declared fields, None for a field never
\* set (Field.__get__ returns None for it, and __set__ never stores None).
User == [i \in 1..Len(fields) |-> <<fields[i].name, None>>]
NoInstance == <<>>

Outcome(err, inst) == [err |-> err, inst |-> inst]

\* __set__ with the TEXT check left out.
FieldSetUnchecked(instance, name, value) ==
    IF FieldOf(name).type_name = "INTEGER" /\ value.t # "int" THEN Outcome("ValueError", instance)
    ELSE Outcome("none", Put(instance, name, value))

\* Field.__set__ (lines 193-198).
FieldSet(instance, name, value) ==
    IF FieldOf(name).type_name = "INTEGER" /\ value.t # "int" THEN Outcome("ValueError", instance)
    ELSE IF FieldOf(name).type_name = "TEXT" /\ value.t # "str" THEN Outcome("ValueError", instance)
    ELSE Outcome("none", Put(instance, name, value))

\* setattr over a sequence of <<name, value>> pairs, stopping at the first that raises
\* (Model.__init__ over its kwargs; the hydration loop of run_query).
RECURSIVE SetAll(_, _)
SetAll(instance, kwargs) ==
    IF kwargs = <<>> THEN Outcome("none", instance)
    ELSE LET r == FieldSet(instance, Head(kwargs)[1], Head(kwargs)[2])
         IN  IF r.err # "none" THEN r ELSE SetAll(r.inst, Tail(kwargs))

\* ------------------------------------------------------------------ save

\* obj_data (lines 306-310): the fields that are not None, in declaration order.
RECURSIVE ObjData(_, _)
ObjData(instance, i) ==
    IF i > Len(fields) THEN <<>>
    ELSE (IF Get(instance, fields[i].name) # None
          THEN <<<<fields[i].name, Get(instance, fields[i].name)>>>> ELSE <<>>)
         \o ObjData(instance, i + 1)

\* max_id (lines 313-317).
RECURSIVE MaxId(_, _)
MaxId(all_data, max_id) ==
    IF all_data = <<>> THEN max_id
    ELSE LET row == Head(all_data)
         IN  MaxId(Tail(all_data),
                   IF Has(row, IdName) /\ Get(row, IdName).t = "int" /\ Get(row, IdName).n > max_id
                   THEN Get(row, IdName).n ELSE max_id)

\* Lines 323-330: replace the first row with the instance's id, or append.
Upsert(all_data, id, obj_data) ==
    IF \E i \in 1..Len(all_data) : Get(all_data[i], IdName) = id
    THEN LET i == CHOOSE j \in 1..Len(all_data) :
                      Get(all_data[j], IdName) = id
                      /\ \A k \in 1..(j - 1) : Get(all_data[k], IdName) # id
         IN  [all_data EXCEPT ![i] = obj_data]
    ELSE Append(all_data, obj_data)

\* Lines 303-304, 236-237: a dict read from the file counts as no records.
AsList(raw_data) == IF raw_data.shape = "list" THEN raw_data.recs ELSE <<>>

\* A save that writes the instance's record and none of the records it read.
SaveDataAlone(instance, all_data) ==
    IF Get(instance, IdName) = None
    THEN LET new_id == PyInt(MaxId(all_data, 0) + 1)
         IN  [inst |-> Put(instance, IdName, new_id),
              data |-> <<Put(ObjData(instance, 1), IdName, new_id)>>]
    ELSE [inst |-> instance, data |-> <<ObjData(instance, 1)>>]

\* Lines 306-330: the instance and the list of records after save's computation.
SaveData(instance, all_data) ==
    IF Get(instance, IdName) = None
    THEN LET new_id == PyInt(MaxId(all_data, 0) + 1)
         IN  [inst |-> Put(instance, IdName, new_id),
              data |-> Append(all_data, Put(ObjData(instance, 1), IdName, new_id))]
    ELSE [inst |-> instance,
          data |-> Upsert(all_data, Get(instance, IdName), ObjData(instance, 1))]

\* ----------------------------------------------------------------- query

\* Lines 242-246: every condition equals record.get(key).
Matches(record, conditions) ==
    \A i \in 1..Len(conditions) : Get(record, conditions[i][1]) = conditions[i][2]

\* Lines 249-252: the declared fields the record has, in declaration order.
RECURSIVE Hydration(_, _)
Hydration(record, i) ==
    IF i > Len(fields) THEN <<>>
    ELSE (IF Has(record, fields[i].name)
          THEN <<<<fields[i].name, Get(record, fields[i].name)>>>> ELSE <<>>)
         \o Hydration(record, i + 1)

\* Lines 239-255: the instances of the matching records, or the first exception a
\* setattr raises.
RECURSIVE RunQuery(_, _, _)
RunQuery(raw_data, conditions, result_objects) ==
    IF raw_data = <<>> THEN [err |-> "none", objs |-> result_objects]
    ELSE IF Matches(Head(raw_data), conditions)
         THEN LET r == SetAll(User, Hydration(Head(raw_data), 1))
              IN  IF r.err # "none" THEN [err |-> r.err, objs |-> <<>>]
                  ELSE RunQuery(Tail(raw_data), conditions, Append(result_objects, r.inst))
         ELSE RunQuery(Tail(raw_data), conditions, result_objects)

\* ----------------------------------------------------- query specifications

\* dict.update(kwargs) (line 223): the pairs put one after another.
RECURSIVE Update(_, _)
Update(conditions, kwargs) ==
    IF kwargs = <<>> THEN conditions
    ELSE Update(Put(conditions, Head(kwargs)[1], Head(kwargs)[2]), Tail(kwargs))

\* A filter that leaves its object alone and answers with a new one.
filterClone(querysets, o, kwargs) ==
    [querysets |-> Append(querysets, Update(querysets[o], kwargs)), result |-> Len(querysets) + 1]

\* QuerySet.filter (lines 221-224) on the object o of the heap querysets: the heap
\* afterwards and the object returned.
filter(querysets, o, kwargs) ==
    [querysets |-> [querysets EXCEPT ![o] = Update(@, kwargs)], result |-> o]

\* -------------------------------------------------------- writes in steps

\* The byte that fills a hole left by a write past the end of a file.
NUL == "x00"

\* f.write(s) on a handle at offset pos (lines 157-170 on the handle of line 154):
\* the file's other bytes stay.
Overwrite(text, pos, s) ==
    LET end == IF Len(text) > pos + Len(s) THEN Len(text) ELSE pos + Len(s)
    IN  [i \in 1..end |-> IF i > pos /\ i <= pos + Len(s) THEN s[i - pos]
                          ELSE IF i <= Len(text) THEN text[i] ELSE NUL]

\* ------------------------------------------------------------- the state

VARIABLES
    db_manager,   \* the module global: "None" or "bound" (a FileManager on the store path)
    exists,       \* os.path.exists(file_path)
    readable,     \* the operating system lets the process open the file
    file,         \* the text in the store file
    pc,           \* per task: "idle", "write" between save's read and its write,
                  \* "writing" while its file handle is open for writing
    self,         \* per task: the model instance it holds, or NoInstance
    all_data,     \* per task: the records its save read (a codec caller: the data it writes)
    writing,      \* per task: the save under way: the instance before it, whether its read
                  \* fell inside another task's write, the records still to write, the offset
    querysets,    \* the QuerySet objects made so far: the conditions of each
    calls,        \* per QuerySet: the arguments of its filter calls and the outcomes of its
                  \* executions, in order
    hist,         \* the saves completed so far, in order: instance before and after
    last,         \* the operation that ended last: its call, its outcome, the state before it
    n             \* saves and queries begun

vars == <<db_manager, exists, readable, file, pc, self, all_data, writing, querysets, calls,
          hist, last, n>>

Tasks == {1, 2}

Op(op, t, arg, err, io, result, preself) ==
    [op |-> op, t |-> t, arg |-> arg, err |-> err, io |-> io, result |-> result,
     prefile |-> file, preexists |-> exists, preself |-> preself, predb |-> db_manager]

NoOp == [op |-> "none", t |-> 0, arg |-> <<>>, err |-> "none", io |-> {}, result |-> <<>>,
         prefile |-> <<>>, preexists |-> FALSE, preself |-> NoInstance, predb |-> "None"]

NoWrite == [pre |-> NoInstance, torn |-> FALSE, todo |-> <<>>, pos |-> 0]

\* A constructor that opens the file for writing whether or not it exists.
FileManagerInitTruncating(there, text) == <<>>

\* What FileManager.__init__ leaves in the file (lines 78-80).
FileManagerInit(there, text) == IF ~there THEN <<>> ELSE text

\* db_manager = FileManager(db_name)  (line 374, lines 76-80)
Construct ==
    /\ db_manager' = "bound"
    /\ exists' = TRUE
    /\ file' = FileManagerInit(exists, file)
    /\ last' = Op("init", 0, <<>>, "none", IF exists THEN {} ELSE {"write"}, <<>>, NoInstance)
    /\ UNCHANGED <<readable, pc, self, all_data, writing, querysets, calls, hist, n>>

\* The instance a task holds is the one whose save completed last.
JustSaved(t) == hist # <<>> /\ hist[Len(hist)].post = self[t]

\* User(**kwargs)  (lines 287-289): no instance comes into being when a setattr
\* raises.  A task takes a new instance once it has saved the one it holds.
Create(t, kwargs) ==
    /\ pc[t] = "idle"
    /\ self[t] = NoInstance \/ JustSaved(t)
    /\ LET r == SetAll(User, kwargs)
       IN  /\ self' = IF r.err = "none" THEN [self EXCEPT ![t] = r.inst] ELSE self
           /\ last' = Op("new", t, kwargs, r.err, {}, <<>>, NoInstance)
    /\ UNCHANGED <<db_manager, exists, readable, file, pc, all_data, writing, querysets, calls, hist, n>>

\* setattr(instance, name, value) on the instance a task holds  (lines 193-198)
SetAttr(t, name, value) ==
    /\ pc[t] = "idle"
    /\ self[t] # NoInstance
    /\ LET r == FieldSet(self[t], name, value)
       IN  /\ self' = [self EXCEPT ![t] = r.inst]
           /\ last' = Op("set", t, <<name, value>>, r.err, {}, <<>>, self[t])
    /\ UNCHANGED <<db_manager, exists, readable, file, pc, all_data, writing, querysets, calls, hist, n>>

\* A check of the global that never fires.
UninitializedNever(manager) == FALSE

\* `db_manager is None`  (lines 231, 299)
Uninitialized(manager) == manager = "None"

\* save up to the end of its read  (lines 299-304): the check of the global, then
\* db_manager.read in a worker thread.
SaveBegin(t, MaxOps) ==
    /\ pc[t] = "idle"
    /\ self[t] # NoInstance
    /\ n < MaxOps
    /\ n' = n + 1
    /\ IF Uninitialized(db_manager)
       THEN /\ last' = Op("save", t, <<>>, "RuntimeError", {}, <<>>, self[t])
            /\ UNCHANGED <<pc, all_data, writing>>
       ELSE LET r == read(readable, file)
            IN  IF r.shape = "FileCorrupted"
                THEN /\ last' = Op("save", t, <<>>, "FileCorrupted", {"read"}, <<>>, self[t])
                     /\ UNCHANGED <<pc, all_data, writing>>
                ELSE /\ pc' = [pc EXCEPT ![t] = "write"]
                     /\ all_data' = [all_data EXCEPT ![t] = AsList(r)]
                     /\ writing' = [writing EXCEPT ![t] =
                            [pre |-> self[t], torn |-> \E u \in Tasks : pc[u] = "writing",
                             todo |-> <<>>, pos |-> 0]]
                     /\ UNCHANGED last
    /\ UNCHANGED <<db_manager, exists, readable, file, self, querysets, calls, hist>>

\* The entry of a completed save in hist.
Saved(t, post) ==
    [pre |-> writing[t].pre, post |-> post, t |-> t, read |-> all_data[t], torn |-> writing[t].torn]

\* A save whose write starts from the file as it is now, not from what the save read.
SaveEndFresh(t) ==
    /\ pc[t] = "write"
    /\ LET d == SaveData(self[t], AsList(read(readable, file)))
       IN  /\ self' = [self EXCEPT ![t] = d.inst]
           /\ file' = write(d.data)
           /\ hist' = Append(hist, Saved(t, d.inst))
           /\ last' = Op("save", t, all_data[t], "none", {"read", "write"}, d.data, self[t])
    /\ pc' = [pc EXCEPT ![t] = "idle"]
    /\ all_data' = [all_data EXCEPT ![t] = <<>>]
    /\ writing' = [writing EXCEPT ![t] = NoWrite]
    /\ UNCHANGED <<db_manager, exists, readable, querysets, calls, n>>

\* save from the end of its read on  (lines 306-332): obj_data, the identifier, the
\* new list, then db_manager.write in a worker thread, the whole write one step.
SaveEnd(t) ==
    /\ pc[t] = "write"
    /\ LET d == SaveData(self[t], all_data[t])
       IN  /\ self' = [self EXCEPT ![t] = d.inst]
           /\ file' = write(d.data)
           /\ hist' = Append(hist, Saved(t, d.inst))
           /\ last' = Op("save", t, all_data[t], "none", {"read", "write"}, d.data, self[t])
    /\ pc' = [pc EXCEPT ![t] = "idle"]
    /\ all_data' = [all_data EXCEPT ![t] = <<>>]
    /\ writing' = [writing EXCEPT ![t] = NoWrite]
    /\ UNCHANGED <<db_manager, exists, readable, querysets, calls, n>>

\* save from the end of its read to the open of line 154: obj_data, the identifier,
\* the new list (lines 306-330), then open(file_path, 'w'), which empties the file.
SaveOpen(t) ==
    /\ pc[t] = "write"
    /\ LET d == SaveData(self[t], all_data[t])
       IN  /\ self' = [self EXCEPT ![t] = d.inst]
           /\ writing' = [writing EXCEPT ![t].todo = d.data, ![t].pos = 0]
    /\ file' = <<>>
    /\ pc' = [pc EXCEPT ![t] = "writing"]
    /\ UNCHANGED <<db_manager, exists, readable, all_data, querysets, calls, hist, last, n>>

\* One turn of the loop of lines 164-170: the lines of the next record, written at the
\* handle's offset.
SaveWriteRecord(t) ==
    /\ pc[t] = "writing"
    /\ writing[t].todo # <<>>
    /\ LET s == WriteFields(Head(writing[t].todo), 1)
       IN  /\ file' = Overwrite(file, writing[t].pos, s)
           /\ writing' = [writing EXCEPT ![t].todo = Tail(@), ![t].pos = @ + Len(s)]
    /\ UNCHANGED <<db_manager, exists, readable, pc, self, all_data, querysets, calls, hist, last, n>>

\* The end of the with block of line 154 and of save (line 332).
SaveClose(t) ==
    /\ pc[t] = "writing"
    /\ writing[t].todo = <<>>
    /\ hist' = Append(hist, Saved(t, self[t]))
    /\ last' = Op("save", t, all_data[t], "none", {"read", "write"}, <<>>, writing[t].pre)
    /\ pc' = [pc EXCEPT ![t] = "idle"]
    /\ all_data' = [all_data EXCEPT ![t] = <<>>]
    /\ writing' = [writing EXCEPT ![t] = NoWrite]
    /\ UNCHANGED <<db_manager, exists, readable, file, self, querysets, calls, n>>

\* A query answered from the file as it was before the last operation.
run_queryStale(conditions) ==
    IF Uninitialized(db_manager) THEN [err |-> "RuntimeError", io |-> {}, objs |-> <<>>]
    ELSE LET r == read(readable, last.prefile)
             q == RunQuery(AsList(r), conditions, <<>>)
         IN  IF r.shape = "FileCorrupted"
             THEN [err |-> "FileCorrupted", io |-> {"read"}, objs |-> <<>>]
             ELSE [err |-> q.err, io |-> {"read"}, objs |-> q.objs]

\* QuerySet.run_query (lines 229-255) on the store as it is now.
run_query(conditions) ==
    IF Uninitialized(db_manager) THEN [err |-> "RuntimeError", io |-> {}, objs |-> <<>>]
    ELSE LET r == read(readable, file)
             q == RunQuery(AsList(r), conditions, <<>>)
         IN  IF r.shape = "FileCorrupted"
             THEN [err |-> "FileCorrupted", io |-> {"read"}, objs |-> <<>>]
             ELSE [err |-> q.err, io |-> {"read"}, objs |-> q.objs]

\* await User.objects.filter(**conditions)  (lines 221-255)
Query(t, conditions, MaxOps) ==
    /\ pc[t] = "idle"
    /\ n < MaxOps
    /\ n' = n + 1
    /\ LET q == run_query(conditions)
       IN  last' = Op("query", t, conditions, q.err, q.io, q.objs, self[t])
    /\ UNCHANGED <<db_manager, exists, readable, file, pc, self, all_data, writing, querysets, calls, hist>>

\* User.objects  (lines 275-277, 217-219): a new QuerySet with no conditions.
Objects(MaxObjects) ==
    /\ Len(querysets) < MaxObjects
    /\ querysets' = Append(querysets, <<>>)
    /\ calls' = Append(calls, [filters |-> <<>>, runs |-> <<>>])
    /\ last' = Op("objects", 0, <<>>, "none", {}, Len(querysets) + 1, NoInstance)
    /\ UNCHANGED <<db_manager, exists, readable, file, pc, self, all_data, writing, hist, n>>

\* The filter calls made so far on the first i QuerySet objects.
RECURSIVE FilterCalls(_)
FilterCalls(i) == IF i = 0 THEN 0 ELSE Len(calls[i].filters) + FilterCalls(i - 1)

\* qs.filter(**kwargs) on a QuerySet made earlier  (lines 221-224)
Filter(o, kwargs, MaxCalls) ==
    /\ o \in DOMAIN querysets
    /\ FilterCalls(Len(calls)) < MaxCalls
    /\ LET r == filter(querysets, o, kwargs)
       IN  /\ querysets' = r.querysets
           /\ calls' = [i \in DOMAIN r.querysets |->
                          IF i \notin DOMAIN calls THEN [filters |-> <<>>, runs |-> <<>>]
                          ELSE IF i = o THEN [calls[i] EXCEPT !.filters = Append(@, kwargs)]
                          ELSE calls[i]]
           /\ last' = Op("filter", 0, <<o, kwargs>>, "none", {}, r.result, NoInstance)
    /\ UNCHANGED <<db_manager, exists, readable, file, pc, self, all_data, writing, hist, n>>

\* await qs on a QuerySet made earlier  (lines 226-255)
Await(t, o, MaxOps) ==
    /\ pc[t] = "idle"
    /\ o \in DOMAIN querysets
    /\ n < MaxOps
    /\ n' = n + 1
    /\ LET q == run_query(querysets[o])
       IN  /\ last' = Op("await", t, <<o, querysets[o]>>, q.err, q.io, q.objs, self[t])
           /\ calls' = [calls EXCEPT ![o].runs = Append(@, [err |-> q.err, objs |-> q.objs])]
    /\ UNCHANGED <<db_manager, exists, readable, file, pc, self, all_data, writing, querysets, hist>>

\* db_manager.read() called directly  (lines 90-144)
Read(t) ==
    /\ pc[t] \in {"idle", "written"}
    /\ db_manager = "bound"
    /\ LET r == read(readable, file)
       IN  last' = Op("read", t, <<>>, IF r.shape = "FileCorrupted" THEN "FileCorrupted" ELSE "none",
                      {"read"}, r, self[t])
    /\ UNCHANGED <<db_manager, exists, readable, file, pc, self, all_data, writing, querysets, calls, hist, n>>

\* db_manager.write(data) called directly with a list of records  (lines 146-172)
Write(t, data) ==
    /\ pc[t] \in {"idle", "written"}
    /\ db_manager = "bound"
    /\ file' = write(data)
    /\ pc' = [pc EXCEPT ![t] = "written"]
    /\ all_data' = [all_data EXCEPT ![t] = data]
    /\ last' = Op("write", t, data, "none", {"write"}, <<>>, self[t])
    /\ UNCHANGED <<db_manager, exists, readable, self, writing, querysets, calls, hist, n>>

\* ------------------------------------------------------- specifications

\* Keyword arguments of User(...): each field left out or given one of the values.
Kwargs(ids, usernames, ages) ==
    { a \o b \o c :
        a \in {<<>>} \cup {<<<<IdName, v>>>> : v \in ids},
        b \in {<<>>} \cup {<<<<UsernameName, v>>>> : v \in usernames},
        c \in {<<>>} \cup {<<<<AgeName, v>>>> : v \in ages} }

Idle == [t \in Tasks |-> "idle"]
Nobody == [t \in Tasks |-> NoInstance]
Nothing == [t \in Tasks |-> <<>>]
NoWrites == [t \in Tasks |-> NoWrite]

\* The store of main after line 374, on a path with no file: bound and empty.
InitBound ==
    /\ db_manager = "bound" /\ exists = TRUE /\ readable = TRUE /\ file = <<>>
    /\ pc = Idle /\ self = Nobody /\ all_data = Nothing /\ writing = NoWrites
    /\ querysets = <<>> /\ calls = <<>>
    /\ hist = <<>> /\ last = NoOp /\ n = 0

\* Concurrent saves: two tasks, each read and each write one step.
MaxSaves == 3
SpecIds == {PyInt(1), PyInt(0 - 1)}
SpecNames == {PyStr(<<"a">>)}

Init == InitBound

Next ==
    \E t \in Tasks :
        \/ \E kwargs \in Kwargs(SpecIds, SpecNames, {}) : Create(t, kwargs)
        \/ SaveBegin(t, MaxSaves)
        \/ SaveEnd(t)

Spec == Init /\ [][Next]_vars

\* Sequential use: one task, each save complete before the next call, and queries.
MaxSeqOps == 3
\* A user name that carries a line break and a list marker into the file.
Inject == <<NL, "-", " ", ":">>
SeqIds == {PyInt(1)}
SeqNames == {PyStr(<<"a">>), PyStr(<<"2">>), PyStr(Inject)}
SeqAges == {PyInt(0 - 1)}
SeqConds == Kwargs({}, {PyStr(<<"a">>), PyStr(<<"2">>)}, {PyInt(0 - 1), None})

NextSeq ==
    \/ \E kwargs \in Kwargs(SeqIds, SeqNames, SeqAges) : Create(1, kwargs)
    \/ SaveBegin(1, MaxSeqOps)
    \/ SaveEnd(1)
    \/ \E conditions \in SeqConds : Query(1, conditions, MaxSeqOps)

SpecSeq == Init /\ [][NextSeq]_vars

\* Field assignment on one instance.
MaxFieldInt == 1
FieldValues ==
    {PyInt(i) : i \in (0 - 1)..MaxFieldInt} \cup {PyStr(<<>>), PyStr(<<"a">>), PyStr(<<"7">>)} \cup {None}

NextField ==
    \/ \E kwargs \in Kwargs({PyInt(1), PyStr(<<"a">>)}, {}, {}) : Create(1, kwargs)
    \/ \E name \in FieldNames, value \in FieldValues : SetAttr(1, name, value)

SpecField == Init /\ [][NextField]_vars

\* The codec alone: a list of records written and read back.
MaxRecs == 2
CodecRecords == Kwargs({PyInt(1), PyInt(0 - 1)}, {PyStr(<<"a">>), PyStr(<<"2">>)}, {})

RECURSIVE SeqsUpTo(_, _)
SeqsUpTo(S, k) ==
    IF k = 0 THEN {<<>>}
    ELSE SeqsUpTo(S, k - 1) \cup {Append(q, x) : q \in {r \in SeqsUpTo(S, k - 1) : Len(r) = k - 1}, x \in S}

NextCodec ==
    \/ \E data \in SeqsUpTo(CodecRecords, MaxRecs) : Write(1, data)
    \/ Read(1)

SpecCodec == Init /\ [][NextCodec]_vars

\* The store from before the global is bound, on a path where a file of any content
\* may or may not exist.
MaxStoreOps == 3
StoreFiles ==
    { <<>>,
      write(<<<<<<IdName, PyInt(1)>>, <<AgeName, PyInt(2)>>>>>>),
      <<"-", " ", "a", ":", " ", Sup2, NL>>,
      <<"a", ":", " ", BadByte, NL>>,
      DataKey \o <<NL, "-", " ", "a", NL>> }
StoreNames == {PyStr(<<"a">>), PyStr(<<Sup2>>)}
StoreConds == Kwargs({}, {}, {PyInt(2)})

InitStore ==
    /\ db_manager = "None"
    /\ exists \in BOOLEAN
    /\ readable \in BOOLEAN
    /\ ~exists => readable
    /\ file \in (IF exists THEN StoreFiles ELSE {<<>>})
    /\ pc = Idle /\ self = Nobody /\ all_data = Nothing /\ writing = NoWrites
    /\ querysets = <<>> /\ calls = <<>>
    /\ hist = <<>> /\ last = NoOp /\ n = 0

NextStore ==
    \/ Construct
    \/ \E kwargs \in Kwargs({PyInt(1)}, StoreNames, {}) : Create(1, kwargs)
    \/ SaveBegin(1, MaxStoreOps)
    \/ SaveEnd(1)
    \/ \E conditions \in StoreConds : Query(1, conditions, MaxStoreOps)
    \/ Read(1)

SpecStore == InitStore /\ [][NextStore]_vars

\* Query specifications kept and used again: one task that saves, makes QuerySet
\* objects, narrows them with filter and executes them.
MaxObjects == 1
MaxCalls == 2
MaxQueryOps == 3
FilterKwargs ==
    { <<<<AgeName, PyInt(2)>>>>, <<<<UsernameName, PyStr(<<"a">>)>>, <<AgeName, PyInt(1)>>>> }

NextQuerySets ==
    \/ \E kwargs \in Kwargs({}, {}, {PyInt(2)}) : Create(1, kwargs)
    \/ SaveBegin(1, MaxQueryOps)
    \/ SaveEnd(1)
    \/ Objects(MaxObjects)
    \/ \E o \in 1..MaxObjects, kwargs \in FilterKwargs : Filter(o, kwargs, MaxCalls)
    \/ \E o \in 1..MaxObjects : Await(1, o, MaxQueryOps)

SpecQuerySets == Init /\ [][NextQuerySets]_vars

\* Two tasks that each save new instances, each read and each write one step.
MaxPairSaves == 2
PairNames == {PyStr(<<"a">>), PyStr(<<"b">>)}

NextPair ==
    \E t \in Tasks :
        \/ \E kwargs \in Kwargs({}, PairNames, {}) : Create(t, kwargs)
        \/ SaveBegin(t, MaxPairSaves)
        \/ SaveEnd(t)

SpecPair == Init /\ [][NextPair]_vars

\* Decoding alone: a file of a few lines, read.
MaxLines == 3
DecodeLines ==
    { <<>>, <<"-", " ", "i", "d", ":", " ", "1">>, <<" ", " ", "a", ":", " ", "b">>, <<"x">>, <<"-", " ", "x">> }

RECURSIVE Unlines(_)
Unlines(lines) == IF lines = <<>> THEN <<>> ELSE Head(lines) \o <<NL>> \o Unlines(Tail(lines))

DecodeTexts == {Unlines(lines) : lines \in SeqsUpTo(DecodeLines, MaxLines)}

InitDecode ==
    /\ db_manager = "bound" /\ exists = TRUE /\ readable = TRUE /\ file \in DecodeTexts
    /\ pc = Idle /\ self = Nobody /\ all_data = Nothing /\ writing = NoWrites
    /\ querysets = <<>> /\ calls = <<>>
    /\ hist = <<>> /\ last = NoOp /\ n = 0

NextDecode == Read(1)

SpecDecode == InitDecode /\ [][NextDecode]_vars

\* Two tasks that each save new instances into a store that holds a record already,
\* the write of a save in its steps: the open that empties the file, then one record
\* after another, then the close.
MaxRaceSaves == 2
RaceNames == {PyStr(<<"b">>), PyStr(<<"c", "d">>)}
Prior == <<<<<<IdName, PyInt(1)>>, <<UsernameName, PyStr(<<"a">>)>>>>>>

InitRace ==
    /\ db_manager = "bound" /\ exists = TRUE /\ readable = TRUE /\ file = write(Prior)
    /\ pc = Idle /\ self = Nobody /\ all_data = Nothing /\ writing = NoWrites
    /\ querysets = <<>> /\ calls = <<>>
    /\ hist = <<>> /\ last = NoOp /\ n = 0

NextRace ==
    \E t \in Tasks :
        \/ \E kwargs \in Kwargs({}, RaceNames, {}) : Create(t, kwargs)
        \/ SaveBegin(t, MaxRaceSaves)
        \/ SaveOpen(t)
        \/ SaveWriteRecord(t)
        \/ SaveClose(t)

SpecRace == InitRace /\ [][NextRace]_vars

\* ------------------------------------------------------------ properties

\* The persisted record collection: what a read of the store file decodes to.
Persisted == AsList(read(TRUE, file))

IdsOf(recs) == [i \in 1..Len(recs) |-> Get(recs[i], IdName)]

\* C3: in every state reachable from an empty store by saves of new instances and of
\* instances with explicit identifiers, under every interleaving of the reads and
\* writes of concurrent saves, no two persisted records have the same id.
C3_UniqueIds ==
    \A i, j \in 1..Len(Persisted) :
        (i # j /\ Has(Persisted[i], IdName) /\ Has(Persisted[j], IdName))
            => Get(Persisted[i], IdName) # Get(Persisted[j], IdName)

AllNew == \A k \in 1..Len(hist) : Get(hist[k].pre, IdName) = None

\* C1: from an empty store, when N instances with no identifier are saved one after
\* another, the k-th is assigned identifier k and the persisted collection holds
\* exactly N records, with ids 1..N in save order.
C1_SequentialIds ==
    AllNew =>
        /\ \A k \in 1..Len(hist) : Get(hist[k].post, IdName) = PyInt(k)
        /\ Len(Persisted) = Len(hist)
        /\ IdsOf(Persisted) = [k \in 1..Len(hist) |-> PyInt(k)]

\* The last operation was a save that found a record with the instance's id.
ReplacingSave ==
    /\ last.op = "save" /\ last.err = "none"
    /\ Get(last.preself, IdName) # None
    /\ \E i \in 1..Len(last.arg) : Get(last.arg[i], IdName) = Get(last.preself, IdName)

\* C2: a save of an instance whose identifier equals the id of a persisted record
\* replaces that record at its position with the instance's data and leaves the
\* length, every other record and the order unchanged.
C2_ReplaceInPlace ==
    ReplacingSave =>
        LET i == CHOOSE j \in 1..Len(last.arg) :
                     /\ Get(last.arg[j], IdName) = Get(last.preself, IdName)
                     /\ \A k \in 1..(j - 1) : Get(last.arg[k], IdName) # Get(last.preself, IdName)
        IN  Persisted = [last.arg EXCEPT ![i] = ObjData(last.preself, 1)]

\* The instance a record hydrates to: its declared fields, None for a missing one.
InstanceOf(record) == [i \in 1..Len(fields) |-> <<fields[i].name, Get(record, fields[i].name)>>]

\* Every condition key is present in the record with an equal value.
StrictMatch(record, conditions) ==
    \A i \in 1..Len(conditions) :
        Has(record, conditions[i][1]) /\ Get(record, conditions[i][1]) = conditions[i][2]

RECURSIVE Expected(_, _)
Expected(recs, conditions) ==
    IF recs = <<>> THEN <<>>
    ELSE (IF StrictMatch(Head(recs), conditions) THEN <<InstanceOf(Head(recs))>> ELSE <<>>)
         \o Expected(Tail(recs), conditions)

\* C4: a query returns, in file order, one instance per persisted record in which
\* every condition key is present with an equal value, and no other instance.
C4_FilterExact ==
    (last.op = "query" /\ last.err # "FileCorrupted")
        => last.err = "none" /\ last.result = Expected(Persisted, last.arg)

\* C5: after N new instances sharing one field value v were saved one after another
\* to an empty store, a query on that field = v completes without error and returns
\* exactly those N instances, in insertion order, with ids 1..N and the saved values.
C5_SaveThenFilter ==
    (/\ last.op = "query" /\ hist # <<>> /\ AllNew
     /\ Len(last.arg) = 1
     /\ \A k \in 1..Len(hist) : Get(hist[k].post, last.arg[1][1]) = last.arg[1][2])
        => /\ last.err = "none"
           /\ last.result = [k \in 1..Len(hist) |-> hist[k].post]
           /\ \A k \in 1..Len(hist) : Get(hist[k].post, IdName) = PyInt(k)

\* C6: assigning a string to an Integer field or an integer to a Text field fails with
\* the validation error and the field keeps the value it had (None if never set); an
\* assignment of the matching kind stores the value.
C6_FieldValidation ==
    last.op = "set" =>
        LET name == last.arg[1]
            value == last.arg[2]
            kind == FieldOf(name).type_name
        IN  /\ ((kind = "INTEGER" /\ value.t = "str") \/ (kind = "TEXT" /\ value.t = "int"))
                   => last.err = "ValueError" /\ self[last.t] = last.preself
            /\ ((kind = "INTEGER" /\ value.t = "int") \/ (kind = "TEXT" /\ value.t = "str"))
                   => last.err = "none" /\ self[last.t] = Put(last.preself, name, value)

\* An integer was assigned to the Text field after a string had been stored in it.
C6_Witness ==
    /\ last.op = "set" /\ last.err = "ValueError"
    /\ last.arg[1] = UsernameName /\ last.arg[2].t = "int"
    /\ Get(last.preself, UsernameName).t = "str"
    /\ Get(self[last.t], UsernameName) = Get(last.preself, UsernameName)

\* A string whose characters are all ASCII digits becomes the integer it spells.
RoundTripValue(v) ==
    IF v.t = "str" /\ v.s # <<>> /\ (\A i \in 1..Len(v.s) : v.s[i] \in AsciiDigits)
    THEN PyInt(ParseInt(v.s)) ELSE v

RoundTrip(data) ==
    [i \in 1..Len(data) |-> [j \in 1..Len(data[i]) |-> <<data[i][j][1], RoundTripValue(data[i][j][2])>>]]

\* C7: a list of records written by the codec and read back is a list of records with
\* the same keys and values in the same order, strings of digits read back as integers.
C7_RoundTrip ==
    (pc[1] = "written" /\ last.op = "read")
        => last.result.shape = "list" /\ last.result.recs = RoundTrip(all_data[1])

\* C8: constructing a file store on a path whose file exists leaves the contents as
\* they were, however often it is done; on a path with no file it creates an empty file.
C8_ConstructKeepsFile ==
    last.op = "init" =>
        /\ exists
        /\ last.preexists => file = last.prefile
        /\ ~last.preexists => file = <<>>

\* A store was constructed a second time on a file that is not empty.
C8_Witness ==
    last.op = "init" /\ last.preexists /\ last.predb = "bound" /\ last.prefile # <<>> /\ file = last.prefile

\* C9: when reading the store file fails, read ends with FileCorrupted and the error
\* reaches the caller of read, of save and of a query; the failed save writes nothing
\* and leaves the file and the instance, its identifier included, as they were.
C9_CorruptedReaches ==
    (/\ last.op \in {"read", "save", "query"}
     /\ last.predb = "bound"
     /\ ReadBody(readable, last.prefile) = Raised)
        => /\ last.err = "FileCorrupted"
           /\ "write" \notin last.io
           /\ file = last.prefile
           /\ self[last.t] = last.preself

\* A save of a new instance failed on a file the codec cannot parse.
C9_Witness ==
    /\ last.op = "save" /\ last.err = "FileCorrupted"
    /\ readable /\ ~Contains(file, BadByte)
    /\ self[last.t] # NoInstance /\ Get(self[last.t], IdName) = None

\* C10: a save or a query attempted while no store is bound fails with the
\* uninitialized-store error before any read or write of the file: the file is as it
\* was and a new instance has no identifier.
C10_UnboundFails ==
    (last.op \in {"save", "query"} /\ last.predb = "None")
        => /\ last.err = "RuntimeError"
           /\ last.io = {}
           /\ file = last.prefile /\ exists = last.preexists
           /\ self[last.t] = last.preself

\* A save of a new instance failed for want of a bound store.
C10_Witness ==
    /\ last.op = "save" /\ last.err = "RuntimeError" /\ db_manager = "None"
    /\ Get(self[last.t], IdName) = None

\* C11: when save runs on a store whose file has the wrapped-object shape (first line
\* `data:`), what it writes back is again a wrapped object, so a read after the save
\* still finds the wrapped shape.
C11_WrapperKept ==
    (last.op = "save" /\ last.err = "none" /\ read(TRUE, last.prefile).shape = "wrapped")
        => read(TRUE, file).shape = "wrapped"

\* The filter calls of a sequence that name a key.
Mentions(filters, key) == {i \in 1..Len(filters) : Has(filters[i], key)}

\* The conditions are the merge of the calls' arguments, the last value winning.
Merged(conditions, filters) ==
    /\ \A i, j \in 1..Len(conditions) : conditions[i][1] = conditions[j][1] => i = j
    /\ \A i \in 1..Len(conditions) : Mentions(filters, conditions[i][1]) # {}
    /\ \A key \in FieldNames :
           Mentions(filters, key) # {} =>
               LET m == CHOOSE i \in Mentions(filters, key) : \A j \in Mentions(filters, key) : j <= i
               IN  Has(conditions, key) /\ Get(conditions, key) = Get(filters[m], key)

\* C12: after any sequence of filter calls on one query specification its conditions
\* are the merge of the calls' arguments in call order, the last value winning for a
\* key; every filter call returns the object it was called on; no filter call reads
\* or writes the store.
C12_FilterMerges ==
    /\ \A o \in DOMAIN querysets : Merged(querysets[o], calls[o].filters)
    /\ last.op = "filter" =>
           /\ last.result = last.arg[1]
           /\ last.io = {}
           /\ file = last.prefile

\* Two filter calls on one object have given one key two values.
C12_Witness ==
    /\ last.op = "filter"
    /\ \E o \in DOMAIN querysets, key \in FieldNames :
           /\ Len(calls[o].filters) = 2
           /\ Has(calls[o].filters[1], key) /\ Has(calls[o].filters[2], key)
           /\ Get(calls[o].filters[1], key) # Get(calls[o].filters[2], key)
           /\ \E other \in FieldNames : Has(calls[o].filters[1], other) /\ ~Has(calls[o].filters[2], other)

\* C16: every execution of a query specification reads the store anew: what it returns
\* is what the store holds at that execution, also for a specification executed before
\* and after a completed save, and the execution leaves the file as it was.
C16_QueryReadsAnew ==
    last.op = "await" =>
        /\ file = last.prefile
        /\ last.io = {"read"}
        /\ last.err = RunQuery(Persisted, last.arg[2], <<>>).err
        /\ last.result = RunQuery(Persisted, last.arg[2], <<>>).objs

\* One specification executed before and after a completed save, with two answers.
C16_Witness ==
    /\ last.op = "await" /\ last.err = "none"
    /\ hist # <<>>
    /\ LET runs == calls[last.arg[1]].runs
       IN  /\ Len(runs) >= 2
           /\ runs[Len(runs) - 1].err = "none"
           /\ Len(runs[Len(runs) - 1].objs) < Len(runs[Len(runs)].objs)
           /\ runs[Len(runs)].objs = last.result

\* Two records with the same keys and the same value for each.
SameFields(r1, r2) ==
    /\ \A i \in 1..Len(r1) : Has(r2, r1[i][1]) /\ Get(r2, r1[i][1]) = r1[i][2]
    /\ \A i \in 1..Len(r2) : Has(r1, r2[i][1])

\* The last two completed saves were of new instances, by different tasks, and both
\* had read the same collection.
SameRead ==
    /\ Len(hist) >= 2
    /\ LET a == hist[Len(hist) - 1]
           b == hist[Len(hist)]
       IN  /\ a.t # b.t
           /\ Get(a.pre, IdName) = None /\ Get(b.pre, IdName) = None
           /\ a.read = b.read

\* C13: two concurrent saves of new instances can interleave so that both read the same
\* collection; then both get the same new identifier, and after both writes the persisted
\* collection is what was read plus the record of the save that wrote last: the record of
\* the other save is not in it.
C13_LostUpdate ==
    SameRead =>
        LET a == hist[Len(hist) - 1]
            b == hist[Len(hist)]
        IN  /\ Get(a.post, IdName) = Get(b.post, IdName)
            /\ Len(Persisted) = Len(a.read) + 1
            /\ \A i \in 1..Len(b.read) : Persisted[i] = b.read[i]
            /\ SameFields(Persisted[Len(Persisted)], ObjData(b.post, 1))

\* Both saves are done, they had read the same collection, and their records differ.
C13_Witness ==
    /\ SameRead
    /\ \A t \in Tasks : pc[t] = "idle"
    /\ hist[Len(hist) - 1].post # hist[Len(hist)].post
    /\ \A i \in 1..Len(Persisted) : ~SameFields(Persisted[i], ObjData(hist[Len(hist) - 1].post, 1))

\* The collection persisted before the operation that ended last.
PersistedBefore == AsList(read(TRUE, last.prefile))

\* The integer identifiers among records.
IntIds(recs) == {Get(recs[i], IdName).n : i \in {j \in 1..Len(recs) : Get(recs[j], IdName).t = "int"}}

\* C14: a sequential save of an instance with no identifier gives it 1 + the largest
\* integer identifier among the persisted records (1 when there is none), sets it on the
\* instance, appends exactly one record at the end of the collection, and leaves every
\* record persisted before unchanged and in place.
C14_NewAppendsOne ==
    (last.op = "save" /\ last.err = "none" /\ Get(last.preself, IdName) = None) =>
        /\ Get(self[last.t], IdName).t = "int"
        /\ \A i \in IntIds(PersistedBefore) : i < Get(self[last.t], IdName).n
        /\ Get(self[last.t], IdName).n = 1 \/ Get(self[last.t], IdName).n - 1 \in IntIds(PersistedBefore)
        /\ Len(Persisted) = Len(PersistedBefore) + 1
        /\ \A i \in 1..Len(PersistedBefore) : Persisted[i] = PersistedBefore[i]

\* C15: a sequential save of an instance whose identifier matches no persisted record
\* appends the instance's data as a new record at the end, grows the collection by
\* exactly one, keeps the instance's identifier, and leaves the earlier records unchanged.
C15_UnmatchedAppends ==
    (/\ last.op = "save" /\ last.err = "none"
     /\ Get(last.preself, IdName) # None
     /\ \A i \in 1..Len(PersistedBefore) : Get(PersistedBefore[i], IdName) # Get(last.preself, IdName)) =>
        /\ self[last.t] = last.preself
        /\ Len(Persisted) = Len(PersistedBefore) + 1
        /\ \A i \in 1..Len(PersistedBefore) : Persisted[i] = PersistedBefore[i]
        /\ SameFields(Persisted[Len(Persisted)], ObjData(last.preself, 1))

\* The first non-empty line of a text begins with the list marker.
ListFirst(text) ==
    LET lines == ReadLines(text)
        full == {i \in 1..Len(lines) : Strip(lines[i]) # <<>>}
    IN  /\ full # {}
        /\ StartsWith(Strip(lines[CHOOSE i \in full : \A j \in full : i <= j]), Marker)

\* C17: decoding chooses the shape from the first non-empty line: a text whose first
\* non-empty line begins with the list marker, blank lines before it or not, reads as
\* the sequence of its records (a marker line starts a record, `key: value` lines add
\* fields, lines without `:` are skipped); an empty file reads as an empty mapping.
C17_FirstNonEmptyLine ==
    last.op = "read" =>
        /\ file = <<>> => last.result = Result("dict", <<>>, <<>>, <<>>)
        /\ ListFirst(file) =>
               last.result = Result("list", ParseRecords(ReadLines(file), 1, <<>>, <<>>), <<>>, <<>>)

\* The last two completed saves were of one unchanged instance with an identifier, by
\* one task, the second having read what the first left in the file.
SavedTwice ==
    /\ Len(hist) >= 2
    /\ last.op = "save" /\ last.err = "none"
    /\ LET a == hist[Len(hist) - 1]
           b == hist[Len(hist)]
       IN  /\ a.t = b.t /\ last.t = b.t
           /\ Get(a.pre, IdName) # None
           /\ a.post = a.pre /\ b.pre = a.post
           /\ b.read = PersistedBefore

\* C18: saving is idempotent for an instance with an identifier: for every integer
\* identifier, 0 and negative ones too, and every store state, a second save of the
\* unchanged instance leaves the persisted collection as the first save left it, of the
\* same length, and the instance's identifier as it was.
C18_SaveIdempotent ==
    SavedTwice =>
        /\ Persisted = PersistedBefore
        /\ self[last.t] = hist[Len(hist)].pre

\* Two saves of new instances, one by each task, are complete and no save is under way.
BothSaved ==
    /\ \A t \in Tasks : pc[t] = "idle"
    /\ Len(hist) = 2
    /\ hist[1].t # hist[2].t
    /\ Get(hist[1].pre, IdName) = None /\ Get(hist[2].pre, IdName) = None

\* Every record persisted before the saves is in the persisted collection.
PriorKept == \A i \in 1..Len(Prior) : \E j \in 1..Len(Persisted) : Persisted[j] = Prior[i]

\* C19 as stated: under every interleaving of two concurrent saves of new instances, a
\* write being the open that empties the file and then the records one by one and a read
\* free to fall between those steps, every record persisted before both saves began is
\* in the persisted collection after both are complete.
C19_PriorKeptAlways == BothSaved => PriorKept

\* C19 amended: under every such interleaving in which neither save's read falls between
\* the other save's open and its close, every record persisted before both saves began
\* is in the persisted collection after both are complete.
C19_PriorKeptUntorn == (BothSaved /\ ~hist[1].torn /\ ~hist[2].torn) => PriorKept

\* Both saves are complete, both had read the collection as it was before either wrote,
\* neither read fell inside a write, and the two had different records to add.
C19_Witness ==
    /\ BothSaved /\ ~hist[1].torn /\ ~hist[2].torn
    /\ hist[1].read = Prior /\ hist[2].read = Prior
    /\ hist[1].post # hist[2].post

====
